---- MODULE Spec2Model ----
(***************************************************************************)
(* Model of the pooled database access layer (src/db.py): DatabaseManager  *)
(* with its retrying create_pool, close_pool, health_check, the scoped     *)
(* get_connection / transaction primitives and execute_query.              *)
(*                                                                         *)
(* Every coroutine is cut at its await points: one action is the code that *)
(* runs between two suspensions of the asyncio event loop.  The lifecycle  *)
(* task (task 0) runs create_pool and close_pool; tasks 1..NClients run    *)
(* the scoped operations concurrently with it.                             *)
(***************************************************************************)
EXTENDS Integers, Sequences, FiniteSets, TLC

\* ---- bounds of the model ----
NClients == 2
MaxPools == 2
MaxDim == 3
MaxDocs == 6

\* ---- program constants ----
retry_attempts == 3
retry_delay == 1
max_size == 20

None == 0
LIMIT == 5
NoConn == <<0, 0>>
Clients == 1..NClients
Tasks == 0..NClients
AdminTask == CHOOSE t \in Tasks : t \notin Clients
PoolIds == 1..MaxPools

\* Outcomes of a call: a returned value or a raised exception.  An exception
\* carries its message and the message of the exception it was built from.
NoResult == [type |-> "none", msg |-> "none", cause |-> "none"]
Returned(v) == [type |-> "return", msg |-> v, cause |-> "none"]
DatabaseError(m, c) == [type |-> "DatabaseError", msg |-> m, cause |-> c]
ValueError(m) == [type |-> "ValueError", msg |-> m, cause |-> "none"]
CancelledError == [type |-> "CancelledError", msg |-> "cancelled", cause |-> "none"]

NotInitializedMsg == "Database pool not initialized. Call create_pool() first."
FailedToAcquireMsg == "Failed to acquire database connection"
QueryFailedMsg == "Query execution failed"
CreateFailedMsg == "Failed to establish database connection after attempts"

VARIABLES
    DATABASE_URL,   \* config.DATABASE_URL: "" (absent/empty) or a DSN
    pool,           \* self.pool: None or the id of a pool object
    _is_connected,  \* self._is_connected
    poolState,      \* per pool object: "none" (not constructed), "open", "closing", "closed"
    free,           \* per pool object: its connection holders nobody has borrowed
    adminPc,        \* position of the lifecycle task inside create_pool / close_pool
    adminOp,        \* operation the lifecycle task called last
    adminResult,    \* how that call ended
    attempt,        \* loop variable of create_pool
    sleeps,         \* history: asyncio.sleep durations of the current create_pool call
    storeCalls,     \* history: asyncpg.create_pool invocations of the current call
    storeLog,       \* history: what each asyncpg.create_pool of the current call did
    probe,          \* history: value health_check returned inside the current call
    flagAtStart,    \* history: is_connected when the current lifecycle call started
    op,             \* per task: scoped operation in progress or last finished
    pc,             \* per task: position inside the scope
    conn,           \* per task: connection borrowed
    exc,            \* per task: exception in flight inside the scope
    fetched,        \* per task: value the statement of the scope returned
    result,         \* per task: outcome of the last finished operation
    tx,             \* per task: state of the transaction opened on the connection
    borrowed,       \* per task: history, connections the current call has borrowed
    releases,       \* per task: history, times the borrowed connection was released
    lifespanPc,     \* server.lifespan: position of the lifespan generator
    lifespanExit,   \* server.lifespan: how the code around the yield ended
    yields,         \* history: times the lifespan yielded its AppContext
    closeCalls,     \* history: close_pool calls the lifespan made
    documents,      \* rows of table documents: content and distance to the query
    found,          \* what call_defra_docs returned
    embedding,      \* list[float] handed to embedding_to_postgres_vector
    vectorUtils,    \* text returned by the copy in utils.py
    vectorParser    \* text returned by the copy in doc_parser.py

mgrVars == <<DATABASE_URL, pool, _is_connected>>
poolVars == <<poolState, free>>
adminVars == <<adminPc, adminOp, adminResult, attempt, sleeps, storeCalls,
               storeLog, probe, flagAtStart>>
taskVars == <<op, pc, conn, exc, fetched, result, tx, borrowed, releases>>
lifeVars == <<lifespanPc, lifespanExit, yields, closeCalls>>
dataVars == <<documents, found, embedding, vectorUtils, vectorParser>>
vars == <<DATABASE_URL, pool, _is_connected, poolState, free,
          adminPc, adminOp, adminResult, attempt, sleeps, storeCalls,
          storeLog, probe, flagAtStart,
          op, pc, conn, exc, fetched, result, tx, borrowed, releases,
          lifespanPc, lifespanExit, yields, closeCalls,
          documents, found, embedding, vectorUtils, vectorParser>>

\* No text: embedding_to_postgres_vector has not been applied.
NoText == <<"none">>

\* The manager is not run by server.lifespan: whoever constructed it calls
\* create_pool and close_pool as it likes.
NoLifespan ==
    /\ lifespanPc = "none"
    /\ lifespanExit = "none"
    /\ yields = 0
    /\ closeCalls = 0

\* No search and no encoding is looked at.
NoData ==
    /\ documents = <<>>
    /\ found = NoResult
    /\ embedding = <<>>
    /\ vectorUtils = NoText
    /\ vectorParser = NoText

\* DatabaseManager.is_connected (property)
is_connected == _is_connected /\ pool # None

\* DatabaseManager.__init__ ; Config.DATABASE_URL is read once from the environment
InitManager ==
    /\ DATABASE_URL \in {"", "postgres://db"}
    /\ pool = None
    /\ _is_connected = FALSE
    /\ poolState = [p \in PoolIds |-> "none"]
    /\ free = [p \in PoolIds |-> {}]
    /\ adminPc = "idle"
    /\ adminOp = "none"
    /\ adminResult = NoResult
    /\ attempt = 0
    /\ sleeps = <<>>
    /\ storeCalls = 0
    /\ storeLog = <<>>
    /\ probe = "none"
    /\ flagAtStart = FALSE
    /\ op = [t \in Tasks |-> "none"]
    /\ pc = [t \in Tasks |-> "idle"]
    /\ conn = [t \in Tasks |-> NoConn]
    /\ exc = [t \in Tasks |-> "none"]
    /\ fetched = [t \in Tasks |-> "none"]
    /\ result = [t \in Tasks |-> NoResult]
    /\ tx = [t \in Tasks |-> "none"]
    /\ borrowed = [t \in Tasks |-> 0]
    /\ releases = [t \in Tasks |-> 0]

Init == InitManager /\ NoLifespan /\ NoData

\* ---- the pool object (asyncpg.Pool as used by db.py) ----
\* A pool owns max_size connection holders, all free when it is constructed.
\* The holders are interchangeable: acquire() hands out the free holder of
\* least index, release() puts the holder back.
Holders == 1..max_size
First(f) == CHOOSE i \in f : \A j \in f : i <= j

\* Connections of pool p that some task has borrowed and not yet released.
Borrowed(p) == {t \in Tasks : conn[t] # NoConn /\ conn[t][1] = p}

\* ---- how each operation surfaces what its scope produced ----
\* The value an operation returns when its scope ends without an exception.
NormalResult(o, v) ==
    CASE o = "health" -> Returned(IF v = "1" THEN "True" ELSE "False")
      [] o = "query" -> Returned(v)
      [] OTHER -> Returned("ok")

\* Mutant of Surface: health_check lets the DatabaseError of get_connection
\* through instead of returning False.
Surface_HealthRaises(o, e) ==
    CASE o = "query" -> DatabaseError(QueryFailedMsg, e.msg)
      [] OTHER -> e

\* What reaches the caller of operation o when get_connection raised the
\* DatabaseError e: get_connection and transaction let it through,
\* execute_query wraps it again, health_check swallows it and returns False.
Surface(o, e) ==
    CASE o = "health" -> Returned("False")
      [] o = "query" -> DatabaseError(QueryFailedMsg, e.msg)
      [] OTHER -> e

\* Mutant of ScopeResult: get_connection has no except clause, so an
\* Exception raised inside the scope reaches the caller as it is.
ScopeResult_Raw(o, x, v) ==
    IF x = "none" THEN NormalResult(o, v)
    ELSE IF x = "CancelledError" THEN CancelledError
    ELSE [type |-> "Exception", msg |-> x, cause |-> "none"]

\* What reaches the caller when exception x ("Exception" or "CancelledError")
\* left the body of the scope: `except Exception` in get_connection wraps an
\* Exception, and lets a CancelledError (a BaseException) pass.
ScopeResult(o, x, v) ==
    IF x = "none" THEN NormalResult(o, v)
    ELSE IF x = "CancelledError" THEN CancelledError
    ELSE Surface(o, DatabaseError(FailedToAcquireMsg, x))

\* ---- get_connection, from the call to the yield (or to the raise) ----
\* The call of operation o by task t ends at once with result r.
FailAtEntry(t, o, r) ==
    /\ op' = [op EXCEPT ![t] = o]
    /\ result' = [result EXCEPT ![t] = r]
    /\ conn' = [conn EXCEPT ![t] = NoConn]
    /\ exc' = [exc EXCEPT ![t] = "none"]
    /\ fetched' = [fetched EXCEPT ![t] = "none"]
    /\ tx' = [tx EXCEPT ![t] = "none"]
    /\ borrowed' = [borrowed EXCEPT ![t] = 0]
    /\ releases' = [releases EXCEPT ![t] = 0]
    /\ UNCHANGED <<pc, free>>

\* Mutant of Borrow: one connection is shared by all callers instead of
\* being taken out of the pool.
Borrow_Shared(t, o, p) ==
    /\ op' = [op EXCEPT ![t] = o]
    /\ pc' = [pc EXCEPT ![t] = "acquired"]
    /\ conn' = [conn EXCEPT ![t] = <<p, First(Holders)>>]
    /\ free' = [free EXCEPT ![p] = free[p] \ {First(Holders)}]
    /\ result' = [result EXCEPT ![t] = NoResult]
    /\ exc' = [exc EXCEPT ![t] = "none"]
    /\ fetched' = [fetched EXCEPT ![t] = "none"]
    /\ tx' = [tx EXCEPT ![t] = "none"]
    /\ borrowed' = [borrowed EXCEPT ![t] = 1]
    /\ releases' = [releases EXCEPT ![t] = 0]

\* Task t borrows a free connection of pool p.
Borrow(t, o, p) ==
    /\ op' = [op EXCEPT ![t] = o]
    /\ pc' = [pc EXCEPT ![t] = "acquired"]
    /\ conn' = [conn EXCEPT ![t] = <<p, First(free[p])>>]
    /\ free' = [free EXCEPT ![p] = free[p] \ {First(free[p])}]
    /\ result' = [result EXCEPT ![t] = NoResult]
    /\ exc' = [exc EXCEPT ![t] = "none"]
    /\ fetched' = [fetched EXCEPT ![t] = "none"]
    /\ tx' = [tx EXCEPT ![t] = "none"]
    /\ borrowed' = [borrowed EXCEPT ![t] = 1]
    /\ releases' = [releases EXCEPT ![t] = 0]

\* Mutant of get_connection: the `if not self.pool` test is missing, so on a
\* manager without a pool self.pool.acquire() fails inside the try block and
\* is reported as an acquisition failure.
get_connection_NoInitTest(t, o) ==
    /\ pc[t] = "idle"
    /\ \/ /\ pool = None
          /\ FailAtEntry(t, o, Surface(o, DatabaseError(FailedToAcquireMsg, "AttributeError")))
       \/ /\ pool # None
          /\ poolState[pool] # "open"
          /\ FailAtEntry(t, o, Surface(o, DatabaseError(FailedToAcquireMsg, "pool is closed")))
       \/ /\ pool # None
          /\ poolState[pool] = "open"
          /\ free[pool] # {}
          /\ \/ FailAtEntry(t, o, Surface(o, DatabaseError(FailedToAcquireMsg, "driver")))
             \/ Borrow(t, o, pool)

get_connection(t, o) ==
    /\ pc[t] = "idle"
    /\ \/ /\ pool = None
          /\ FailAtEntry(t, o, Surface(o, DatabaseError(NotInitializedMsg, "none")))
       \/ /\ pool # None
          /\ poolState[pool] # "open"      \* acquire() raises InterfaceError
          /\ FailAtEntry(t, o, Surface(o, DatabaseError(FailedToAcquireMsg, "pool is closed")))
       \/ /\ pool # None
          /\ poolState[pool] = "open"
          /\ free[pool] # {}               \* acquire() waits while no holder is free
          /\ \/ FailAtEntry(t, o, Surface(o, DatabaseError(FailedToAcquireMsg, "driver")))
             \/ Borrow(t, o, pool)

\* ---- the end of the get_connection scope ----
\* Mutant of ReleaseScope: the connection is handed back on normal exit only.
ReleaseScope_LeakOnError(t) ==
    /\ pc[t] = "exiting"
    /\ IF exc[t] = "none"
       THEN /\ free' = [free EXCEPT ![conn[t][1]] = free[conn[t][1]] \cup {conn[t][2]}]
            /\ releases' = [releases EXCEPT ![t] = releases[t] + 1]
       ELSE UNCHANGED <<free, releases>>
    /\ conn' = [conn EXCEPT ![t] = NoConn]
    /\ pc' = [pc EXCEPT ![t] = "idle"]
    /\ result' = [result EXCEPT ![t] = ScopeResult(op[t], exc[t], fetched[t])]
    /\ exc' = [exc EXCEPT ![t] = "none"]
    /\ fetched' = [fetched EXCEPT ![t] = "none"]
    /\ UNCHANGED <<op, tx, borrowed>>

\* pool.acquire().__aexit__ hands the connection back; then the except /
\* return of get_connection and of the operation above it run.
ReleaseScope(t) ==
    /\ pc[t] = "exiting"
    /\ free' = [free EXCEPT ![conn[t][1]] = free[conn[t][1]] \cup {conn[t][2]}]
    /\ releases' = [releases EXCEPT ![t] = releases[t] + 1]
    /\ conn' = [conn EXCEPT ![t] = NoConn]
    /\ pc' = [pc EXCEPT ![t] = "idle"]
    /\ result' = [result EXCEPT ![t] = ScopeResult(op[t], exc[t], fetched[t])]
    /\ exc' = [exc EXCEPT ![t] = "none"]
    /\ fetched' = [fetched EXCEPT ![t] = "none"]
    /\ UNCHANGED <<op, tx, borrowed>>

\* ---- the body of a plain get_connection scope (caller's code) ----
BodyExit(t, x) ==
    /\ pc[t] = "acquired"
    /\ op[t] = "conn"
    /\ exc' = [exc EXCEPT ![t] = x]
    /\ pc' = [pc EXCEPT ![t] = "exiting"]
    /\ UNCHANGED <<op, conn, fetched, result, tx, borrowed, releases, free>>

\* ---- health_check: conn.fetchval("SELECT 1") completes ----
Fetchval(t, v, x) ==
    /\ pc[t] = "acquired"
    /\ op[t] = "health"
    /\ fetched' = [fetched EXCEPT ![t] = v]
    /\ exc' = [exc EXCEPT ![t] = x]
    /\ pc' = [pc EXCEPT ![t] = "exiting"]
    /\ UNCHANGED <<op, conn, result, tx, borrowed, releases, free>>

\* Completions of the statement: the sentinel, another value, or an exception.
StatementOutcomes == {<<"1", "none">>, <<"other", "none">>, <<"none", "Exception">>}

\* ---- execute_query: conn.fetch(query, *args) completes ----
\* Mutant of Fetch: a failed statement is executed again on the same
\* connection instead of ending the call.
Fetch_Retry(t, v, x) ==
    /\ pc[t] = "acquired"
    /\ op[t] = "query"
    /\ fetched' = [fetched EXCEPT ![t] = v]
    /\ exc' = [exc EXCEPT ![t] = x]
    /\ pc' = [pc EXCEPT ![t] = IF x = "Exception" THEN "acquired" ELSE "exiting"]
    /\ UNCHANGED <<op, conn, result, tx, borrowed, releases, free>>

Fetch(t, v, x) ==
    /\ pc[t] = "acquired"
    /\ op[t] = "query"
    /\ fetched' = [fetched EXCEPT ![t] = v]
    /\ exc' = [exc EXCEPT ![t] = x]
    /\ pc' = [pc EXCEPT ![t] = "exiting"]
    /\ UNCHANGED <<op, conn, result, tx, borrowed, releases, free>>

\* ---- transaction ----
\* conn.transaction().__aenter__ completes: BEGIN succeeded or raised.
TxBegin(t, ok) ==
    /\ pc[t] = "acquired"
    /\ op[t] = "tx"
    /\ IF ok
       THEN /\ tx' = [tx EXCEPT ![t] = "started"]
            /\ pc' = [pc EXCEPT ![t] = "body"]
            /\ UNCHANGED exc
       ELSE /\ tx' = [tx EXCEPT ![t] = "begin_failed"]
            /\ exc' = [exc EXCEPT ![t] = "Exception"]
            /\ pc' = [pc EXCEPT ![t] = "exiting"]
    /\ UNCHANGED <<op, conn, fetched, result, borrowed, releases, free>>

\* Mutant of TxBodyExit: only an Exception rolls back, a cancelled body
\* commits.
TxBodyExit_CommitOnCancel(t, x) ==
    /\ pc[t] = "body"
    /\ exc' = [exc EXCEPT ![t] = x]
    /\ tx' = [tx EXCEPT ![t] = IF x = "Exception" THEN "rolling_back" ELSE "committing"]
    /\ pc' = [pc EXCEPT ![t] = "ending"]
    /\ UNCHANGED <<op, conn, fetched, result, borrowed, releases, free>>

\* The body of the transaction scope exits; __aexit__ issues COMMIT when no
\* exception is in flight and ROLLBACK otherwise.
TxBodyExit(t, x) ==
    /\ pc[t] = "body"
    /\ exc' = [exc EXCEPT ![t] = x]
    /\ tx' = [tx EXCEPT ![t] = IF x = "none" THEN "committing" ELSE "rolling_back"]
    /\ pc' = [pc EXCEPT ![t] = "ending"]
    /\ UNCHANGED <<op, conn, fetched, result, borrowed, releases, free>>

\* COMMIT / ROLLBACK completes; a failure of either replaces the exception.
TxEnd(t, ok) ==
    /\ pc[t] = "ending"
    /\ IF ok
       THEN /\ tx' = [tx EXCEPT ![t] = IF tx[t] = "committing" THEN "committed"
                                                               ELSE "rolled_back"]
            /\ UNCHANGED exc
       ELSE /\ tx' = [tx EXCEPT ![t] = IF tx[t] = "committing" THEN "commit_failed"
                                                               ELSE "rollback_failed"]
            /\ exc' = [exc EXCEPT ![t] = "Exception"]
    /\ pc' = [pc EXCEPT ![t] = "exiting"]
    /\ UNCHANGED <<op, conn, fetched, result, borrowed, releases, free>>

\* ---- the scoped operations as run by the client tasks ----
\* Mutant of OnlyScope: an operation of a client writes the connected flag
\* (as a health check that records its verdict would).
OnlyScope_WritesFlag ==
    /\ _is_connected' = FALSE
    /\ UNCHANGED <<DATABASE_URL, dataVars, lifeVars, pool, adminVars, poolState>>

OnlyScope == UNCHANGED <<mgrVars, dataVars, lifeVars, adminVars, poolState>>

AcquireConnection(c) == get_connection(c, "conn") /\ OnlyScope
AcquireTransaction(c) == get_connection(c, "tx") /\ OnlyScope
execute_query(c) == get_connection(c, "query") /\ OnlyScope
health_check(c) == get_connection(c, "health") /\ OnlyScope

ScopeBody(c) ==
    /\ \E x \in {"none", "Exception", "CancelledError"} : BodyExit(c, x)
    /\ OnlyScope

HealthQuery(c) ==
    /\ \/ \E o \in StatementOutcomes : Fetchval(c, o[1], o[2])
       \/ Fetchval(c, "none", "CancelledError")
    /\ OnlyScope

QueryFetch(c) ==
    /\ \E o \in {<<"rows", "none">>, <<"none", "Exception">>, <<"none", "CancelledError">>} :
          Fetch(c, o[1], o[2])
    /\ OnlyScope

TransactionBegin(c) == (\E ok \in BOOLEAN : TxBegin(c, ok)) /\ OnlyScope

TransactionBody(c) ==
    /\ \E x \in {"none", "Exception", "CancelledError"} : TxBodyExit(c, x)
    /\ OnlyScope

TransactionEnd(c) == (\E ok \in BOOLEAN : TxEnd(c, ok)) /\ OnlyScope

Release(c) == ReleaseScope(c) /\ OnlyScope

\* ---- create_pool ----
\* The error the store raises at its n-th call of one create_pool.
ConnectError(n) == <<"ConnectError", n>>

CreateFailed(e) ==
    [type |-> "DatabaseError", msg |-> CreateFailedMsg,
     attempts |-> retry_attempts, cause |-> e]

\* Mutant of create_pool: the DSN test is missing.
create_pool_NoDsnTest ==
    /\ adminPc = "idle"
    /\ adminOp' = "create_pool"
    /\ flagAtStart' = is_connected
    /\ sleeps' = <<>>
    /\ storeLog' = <<>>
    /\ probe' = "none"
    /\ attempt' = 0
    /\ adminResult' = NoResult
    /\ storeCalls' = 1
    /\ adminPc' = "constructing"
    /\ UNCHANGED <<mgrVars, dataVars, poolVars, taskVars>>

\* The call: the DSN test, then the first asyncpg.create_pool is awaited.
create_pool ==
    /\ adminPc = "idle"
    /\ adminOp' = "create_pool"
    /\ flagAtStart' = is_connected
    /\ sleeps' = <<>>
    /\ storeLog' = <<>>
    /\ probe' = "none"
    /\ attempt' = 0
    /\ IF DATABASE_URL = ""
       THEN /\ adminResult' = ValueError("Database URL not configured")
            /\ storeCalls' = 0
            /\ UNCHANGED adminPc
       ELSE /\ adminResult' = NoResult
            /\ storeCalls' = 1
            /\ adminPc' = "constructing"
    /\ UNCHANGED <<mgrVars, dataVars, poolVars, taskVars>>

\* Mutant of ConstructFailed: the last attempt is not told from the others
\* (attempt < retry_attempts), so it backs off and tries again.
ConstructFailed_OffByOne ==
    /\ adminPc = "constructing"
    /\ storeLog' = Append(storeLog, ConnectError(storeCalls))
    /\ IF attempt < retry_attempts
       THEN /\ sleeps' = Append(sleeps, retry_delay * (2 ^ attempt))
            /\ adminPc' = "sleeping"
            /\ UNCHANGED adminResult
       ELSE /\ adminResult' = CreateFailed(ConnectError(storeCalls))
            /\ adminPc' = "idle"
            /\ UNCHANGED sleeps
    /\ UNCHANGED <<adminOp, attempt, storeCalls, probe, flagAtStart,
                   mgrVars, dataVars, poolVars, taskVars>>

\* asyncpg.create_pool raised: the except branch sleeps or gives up.
ConstructFailed ==
    /\ adminPc = "constructing"
    /\ storeLog' = Append(storeLog, ConnectError(storeCalls))
    /\ IF attempt < retry_attempts - 1
       THEN /\ sleeps' = Append(sleeps, retry_delay * (2 ^ attempt))
            /\ adminPc' = "sleeping"
            /\ UNCHANGED adminResult
       ELSE /\ adminResult' = CreateFailed(ConnectError(storeCalls))
            /\ adminPc' = "idle"
            /\ UNCHANGED sleeps
    /\ UNCHANGED <<adminOp, attempt, storeCalls, probe, flagAtStart,
                   mgrVars, dataVars, poolVars, taskVars>>

\* Mutant of BackoffDone: the loop variable does not advance, so the delay
\* never grows.
BackoffDone_SameAttempt ==
    /\ adminPc = "sleeping"
    /\ attempt' = attempt
    /\ storeCalls' = storeCalls + 1
    /\ adminPc' = "constructing"
    /\ UNCHANGED <<adminOp, adminResult, sleeps, storeLog, probe, flagAtStart,
                   mgrVars, dataVars, poolVars, taskVars>>

\* asyncio.sleep returned: the next iteration awaits asyncpg.create_pool.
BackoffDone ==
    /\ adminPc = "sleeping"
    /\ attempt' = attempt + 1
    /\ storeCalls' = storeCalls + 1
    /\ adminPc' = "constructing"
    /\ UNCHANGED <<adminOp, adminResult, sleeps, storeLog, probe, flagAtStart,
                   mgrVars, dataVars, poolVars, taskVars>>

\* What create_pool does once health_check has returned b: the value is
\* dropped, the flag is set and the call returns.
AfterProbe(b) ==
    /\ probe' = b
    /\ _is_connected' = TRUE
    /\ adminResult' = Returned("ok")
    /\ adminPc' = "idle"

\* asyncpg.create_pool returned a pool: it is stored and health_check
\* borrows its first connection (or fails to).
NextPoolId == CHOOSE p \in PoolIds : poolState[p] = "none" /\ \A q \in PoolIds : poolState[q] = "none" => p <= q

ConstructOk ==
    /\ adminPc = "constructing"
    /\ \E p \in PoolIds : poolState[p] = "none"
    /\ pool' = NextPoolId
    /\ poolState' = [poolState EXCEPT ![NextPoolId] = "open"]
    /\ \/ /\ free' = [free EXCEPT ![NextPoolId] = Holders \ {First(Holders)}]
          /\ op' = [op EXCEPT ![AdminTask] = "health"]
          /\ pc' = [pc EXCEPT ![AdminTask] = "acquired"]
          /\ conn' = [conn EXCEPT ![AdminTask] = <<NextPoolId, First(Holders)>>]
          /\ result' = [result EXCEPT ![AdminTask] = NoResult]
          /\ exc' = [exc EXCEPT ![AdminTask] = "none"]
          /\ fetched' = [fetched EXCEPT ![AdminTask] = "none"]
          /\ borrowed' = [borrowed EXCEPT ![AdminTask] = 1]
          /\ releases' = [releases EXCEPT ![AdminTask] = 0]
          /\ adminPc' = "probing"
          /\ UNCHANGED <<tx, _is_connected, adminResult, probe>>
       \/ /\ free' = [free EXCEPT ![NextPoolId] = Holders]
          /\ op' = [op EXCEPT ![AdminTask] = "health"]
          /\ result' = [result EXCEPT ![AdminTask] =
                           Surface("health", DatabaseError(FailedToAcquireMsg, "driver"))]
          /\ AfterProbe("False")
          /\ borrowed' = [borrowed EXCEPT ![AdminTask] = 0]
          /\ releases' = [releases EXCEPT ![AdminTask] = 0]
          /\ UNCHANGED <<pc, conn, exc, fetched, tx>>
    /\ storeLog' = Append(storeLog, <<"pool", NextPoolId>>)
    /\ UNCHANGED <<DATABASE_URL, dataVars, adminOp, attempt, sleeps, storeCalls, flagAtStart>>

\* The probe's SELECT 1 completes.
ProbeQuery ==
    /\ adminPc = "probing"
    /\ \E o \in StatementOutcomes : Fetchval(AdminTask, o[1], o[2])
    /\ UNCHANGED <<mgrVars, dataVars, adminVars, poolState>>

\* The probe's connection is released, health_check returns, create_pool
\* sets the flag and returns.
ProbeReturn ==
    /\ adminPc = "probing"
    /\ ReleaseScope(AdminTask)
    /\ AfterProbe(ScopeResult("health", exc[AdminTask], fetched[AdminTask]).msg)
    /\ UNCHANGED <<DATABASE_URL, dataVars, pool, poolState, adminOp, attempt, sleeps,
                   storeCalls, storeLog, flagAtStart>>

\* ---- close_pool ----
\* Mutant of close_pool: closing a pool that is already closed raises
\* instead of returning at once.
close_pool_RaisesOnClosed ==
    /\ adminPc = "idle"
    /\ adminOp' = "close_pool"
    /\ flagAtStart' = is_connected
    /\ IF pool = None
       THEN /\ adminResult' = Returned("ok")
            /\ UNCHANGED <<adminPc, _is_connected, poolState>>
       ELSE IF poolState[pool] = "closed"
       THEN /\ adminResult' = [type |-> "Exception", msg |-> "pool is closed",
                               cause |-> "none"]
            /\ UNCHANGED <<adminPc, _is_connected, poolState>>
       ELSE /\ adminResult' = NoResult
            /\ poolState' = [poolState EXCEPT ![pool] = "closing"]
            /\ adminPc' = "closing"
            /\ UNCHANGED _is_connected
    /\ UNCHANGED <<DATABASE_URL, dataVars, pool, free, attempt, sleeps, storeCalls,
                   storeLog, probe, taskVars>>

\* The call: a no-op without a pool; pool.close() returns at once on a pool
\* that is already closed, and otherwise starts closing and is awaited.
close_pool ==
    /\ adminPc = "idle"
    /\ adminOp' = "close_pool"
    /\ flagAtStart' = is_connected
    /\ IF pool = None
       THEN /\ adminResult' = Returned("ok")
            /\ UNCHANGED <<adminPc, _is_connected, poolState>>
       ELSE IF poolState[pool] = "closed"
       THEN /\ adminResult' = Returned("ok")
            /\ _is_connected' = FALSE
            /\ UNCHANGED <<adminPc, poolState>>
       ELSE /\ adminResult' = NoResult
            /\ poolState' = [poolState EXCEPT ![pool] = "closing"]
            /\ adminPc' = "closing"
            /\ UNCHANGED _is_connected
    /\ UNCHANGED <<DATABASE_URL, dataVars, pool, free, attempt, sleeps, storeCalls,
                   storeLog, probe, taskVars>>

\* pool.close() returns once every borrowed connection is back; then the
\* flag is cleared.
CloseDone ==
    /\ adminPc = "closing"
    /\ Borrowed(pool) = {}
    /\ poolState' = [poolState EXCEPT ![pool] = "closed"]
    /\ _is_connected' = FALSE
    /\ adminResult' = Returned("ok")
    /\ adminPc' = "idle"
    /\ UNCHANGED <<DATABASE_URL, dataVars, pool, free, adminOp, attempt, sleeps, storeCalls,
                   storeLog, probe, flagAtStart, taskVars>>

\* pool.close() raises while closing its connections: the pool is
\* terminated and the exception leaves close_pool before the flag is cleared.
CloseFailed ==
    /\ adminPc = "closing"
    /\ Borrowed(pool) = {}
    /\ poolState' = [poolState EXCEPT ![pool] = "closed"]
    /\ adminResult' = [type |-> "Exception", msg |-> "close", cause |-> "none"]
    /\ adminPc' = "idle"
    /\ UNCHANGED <<mgrVars, dataVars, free, adminOp, attempt, sleeps, storeCalls,
                   storeLog, probe, flagAtStart, taskVars>>

\* ---- specifications ----
\* The steps of the lifecycle task.
Lifecycle ==
    \/ create_pool /\ UNCHANGED lifeVars
    \/ ConstructFailed /\ UNCHANGED lifeVars
    \/ BackoffDone /\ UNCHANGED lifeVars
    \/ ConstructOk /\ UNCHANGED lifeVars
    \/ ProbeQuery /\ UNCHANGED lifeVars
    \/ ProbeReturn /\ UNCHANGED lifeVars
    \/ close_pool /\ UNCHANGED lifeVars
    \/ CloseDone /\ UNCHANGED lifeVars
    \/ CloseFailed /\ UNCHANGED lifeVars

\* The steps of client task c.
ClientStep(c) ==
    \/ AcquireConnection(c)
    \/ AcquireTransaction(c)
    \/ execute_query(c)
    \/ health_check(c)
    \/ ScopeBody(c)
    \/ HealthQuery(c)
    \/ QueryFetch(c)
    \/ TransactionBegin(c)
    \/ TransactionBody(c)
    \/ TransactionEnd(c)
    \/ Release(c)

\* Spec: the whole life of one manager, from construction on, with one
\* caller running scoped operations concurrently with the lifecycle task.
Caller == CHOOSE c \in Clients : \A d \in Clients : c <= d

Next ==
    \/ Lifecycle
    \/ ClientStep(Caller)

Spec == Init /\ [][Next]_vars

\* SpecScopes: NClients concurrent callers on a manager whose create_pool has
\* succeeded at its first attempt; the lifecycle task may still close the pool.
InitScopes ==
    /\ DATABASE_URL = "postgres://db"
    /\ pool = 1
    /\ _is_connected = TRUE
    /\ poolState = [p \in PoolIds |-> IF p = 1 THEN "open" ELSE "none"]
    /\ free = [p \in PoolIds |-> IF p = 1 THEN Holders ELSE {}]
    /\ adminPc = "idle"
    /\ adminOp = "create_pool"
    /\ adminResult = Returned("ok")
    /\ attempt = 0
    /\ sleeps = <<>>
    /\ storeCalls = 1
    /\ storeLog = << <<"pool", 1>> >>
    /\ probe = "True"
    /\ flagAtStart = FALSE
    /\ op = [t \in Tasks |-> IF t = AdminTask THEN "health" ELSE "none"]
    /\ pc = [t \in Tasks |-> "idle"]
    /\ conn = [t \in Tasks |-> NoConn]
    /\ exc = [t \in Tasks |-> "none"]
    /\ fetched = [t \in Tasks |-> "none"]
    /\ result = [t \in Tasks |-> IF t = AdminTask THEN Returned("True") ELSE NoResult]
    /\ tx = [t \in Tasks |-> "none"]
    /\ borrowed = [t \in Tasks |-> IF t = AdminTask THEN 1 ELSE 0]
    /\ releases = [t \in Tasks |-> IF t = AdminTask THEN 1 ELSE 0]
    /\ NoLifespan
    /\ NoData

NextScopes ==
    \/ close_pool /\ UNCHANGED lifeVars
    \/ CloseDone /\ UNCHANGED lifeVars
    \/ CloseFailed /\ UNCHANGED lifeVars
    \/ \E c \in Clients : ClientStep(c)

SpecScopes == InitScopes /\ [][NextScopes]_vars

\* ---- embedding_to_postgres_vector (utils.py and doc_parser.py) ----
\* Text is a sequence of characters. A float is counted in tenths (25 is
\* 2.5), below 10 in magnitude; str(x) writes its sign, its integer digit,
\* the point and its decimal digit.
Floats == {0 - 5, 0, 10, 25}

Abs(x) == IF x < 0 THEN 0 - x ELSE x

str(x) ==
    (IF x < 0 THEN <<"-">> ELSE <<>>) \o
    <<ToString(Abs(x) \div 10), ".", ToString(Abs(x) % 10)>>

\* sep.join(parts)
RECURSIVE join(_, _)
join(sep, parts) ==
    IF parts = <<>> THEN <<>>
    ELSE IF Len(parts) = 1 THEN parts[1]
    ELSE parts[1] \o sep \o join(sep, Tail(parts))

\* Mutant of embedding_to_postgres_vector: the list is written as Python
\* prints a list, with a comma and a blank between the elements.
embedding_to_postgres_vector_Spaced(e) ==
    <<"[">> \o join(<<",", " ">>, [i \in 1..Len(e) |-> str(e[i])]) \o <<"]">>

\* utils.py: f'[{",".join(str(x) for x in embedding)}]'
embedding_to_postgres_vector(e) ==
    <<"[">> \o join(<<",">>, [i \in 1..Len(e) |-> str(e[i])]) \o <<"]">>

\* doc_parser.py: its own copy of the function.
doc_parser_embedding_to_postgres_vector(e) ==
    <<"[">> \o join(<<",">>, [i \in 1..Len(e) |-> str(e[i])]) \o <<"]">>

\* The lists of at most MaxDim floats.
Embeddings == UNION {[1..n -> Floats] : n \in 0..MaxDim}

\* call_defra_docs encodes the embedding of the query (utils.py).
EncodeQuery ==
    /\ vectorUtils = NoText
    /\ vectorUtils' = embedding_to_postgres_vector(embedding)
    /\ UNCHANGED <<mgrVars, poolVars, adminVars, taskVars, lifeVars,
                   documents, found, embedding, vectorParser>>

\* main of doc_parser.py encodes the embedding of a chunk.
EncodeChunk ==
    /\ vectorParser = NoText
    /\ vectorParser' = doc_parser_embedding_to_postgres_vector(embedding)
    /\ UNCHANGED <<mgrVars, poolVars, adminVars, taskVars, lifeVars,
                   documents, found, embedding, vectorUtils>>

\* SpecVector: both copies of embedding_to_postgres_vector applied to every
\* list of at most MaxDim floats.
InitVector ==
    /\ InitManager
    /\ DATABASE_URL # ""
    /\ NoLifespan
    /\ documents = <<>>
    /\ found = NoResult
    /\ embedding \in Embeddings
    /\ vectorUtils = NoText
    /\ vectorParser = NoText

NextVector ==
    \/ EncodeQuery
    \/ EncodeChunk

SpecVector == InitVector /\ [][NextVector]_vars

\* ---- call_defra_docs (utils.py) ----
\* The cosine distances `embedding <=> $1` can take, in whole units.
Distances == {0, 1, 2}

\* The tables of at most MaxDocs rows: row i has the content i and any of
\* the distances to the query.
Tables ==
    UNION {{[i \in 1..n |-> [content |-> i, distance |-> d[i]]] : d \in [1..n -> Distances]} :
              n \in 0..MaxDocs}

\* 1 - (embedding <=> $1) AS score
score(row) == 1 - row.distance

Document(row) == [content |-> row.content, score |-> score(row)]

\* Mutant of Lowest: ORDER BY score DESC.
Lowest_Descending(rows) ==
    {i \in rows : \A j \in rows : score(documents[i]) >= score(documents[j])}

\* The rows of the set rows that ORDER BY score ASC may put first.
Lowest(rows) ==
    {i \in rows : \A j \in rows : score(documents[i]) <= score(documents[j])}

\* ORDER BY score ASC LIMIT k over the rows of the set rows: the sequences
\* the store may return (rows of equal score come in any order).
RECURSIVE OrderByLimit(_, _)
OrderByLimit(rows, k) ==
    IF k = 0 \/ rows = {} THEN {<<>>}
    ELSE UNION {{<<i>> \o rest : rest \in OrderByLimit(rows \ {i}, k - 1)} :
                   i \in Lowest(rows)}

\* One call: the query embedding is encoded, execute_query runs the SELECT,
\* and the rows become Documents in the order the store returned them; a
\* DatabaseError of execute_query goes on to the caller.
call_defra_docs ==
    /\ found.type = "none"
    /\ vectorUtils' = embedding_to_postgres_vector(embedding)
    /\ \/ \E rows \in OrderByLimit(1..Len(documents), LIMIT) :
             found' = Returned([i \in 1..Len(rows) |-> Document(documents[rows[i]])])
       \/ found' = DatabaseError(QueryFailedMsg, FailedToAcquireMsg)
    /\ UNCHANGED <<mgrVars, poolVars, adminVars, taskVars, lifeVars,
                   documents, embedding, vectorParser>>

\* SpecSearch: one call_defra_docs on every table of at most MaxDocs rows.
InitSearch ==
    /\ InitManager
    /\ DATABASE_URL # ""
    /\ NoLifespan
    /\ documents \in Tables
    /\ found = NoResult
    /\ embedding = <<10, 25>>
    /\ vectorUtils = NoText
    /\ vectorParser = NoText

NextSearch == call_defra_docs

SpecSearch == InitSearch /\ [][NextSearch]_vars

\* ---- server.lifespan ----
\* How the code around the yield may end: the server stops, fails, or its
\* task is cancelled.
ExitKinds == {"normal", "Exception", "CancelledError"}

\* A step of `await db.create_pool()` was taken: when it ended the call,
\* the lifespan goes on at once, to the yield if create_pool returned and
\* out of the generator if it raised.
CreateStepDone ==
    /\ lifespanPc' = IF adminPc' # "idle" THEN "creating"
                     ELSE IF adminResult'.type = "return" THEN "ready"
                     ELSE "failed"
    /\ yields' = IF lifespanPc' = "ready" THEN yields + 1 ELSE yields
    /\ UNCHANGED <<lifespanExit, closeCalls>>

\* db = DatabaseManager(config); await db.create_pool()
LifespanEnter == lifespanPc = "start" /\ create_pool /\ CreateStepDone

\* Mutant of LifespanExit: no try/finally, close_pool follows the yield on
\* the normal path only.
LifespanExit_NoFinally(kind) ==
    /\ lifespanPc = "ready"
    /\ lifespanExit' = kind
    /\ IF kind = "normal"
       THEN /\ close_pool
            /\ closeCalls' = closeCalls + 1
            /\ lifespanPc' = IF adminPc' = "idle" THEN "done" ELSE "closing"
       ELSE /\ lifespanPc' = "done"
            /\ UNCHANGED <<mgrVars, dataVars, poolVars, adminVars, taskVars, closeCalls>>
    /\ UNCHANGED yields

\* The code around the yield ends in one of the three ways: the finally
\* clause calls close_pool.
LifespanExit(kind) ==
    /\ lifespanPc = "ready"
    /\ lifespanExit' = kind
    /\ close_pool
    /\ closeCalls' = closeCalls + 1
    /\ lifespanPc' = IF adminPc' = "idle" THEN "done" ELSE "closing"
    /\ UNCHANGED yields

\* `await db.close_pool()` ends, by returning or by raising.
CloseStepDone ==
    /\ lifespanPc = "closing"
    /\ lifespanPc' = "done"
    /\ UNCHANGED <<lifespanExit, yields, closeCalls>>

\* The callers the server runs tools for: between the yield and the end of
\* close_pool.
Served == IF lifespanPc \in {"ready", "closing"} THEN {Caller} ELSE {}

\* SpecLifespan: the manager as server.lifespan runs it.
InitLifespan ==
    /\ InitManager
    /\ lifespanPc = "start"
    /\ lifespanExit = "none"
    /\ yields = 0
    /\ closeCalls = 0
    /\ NoData

NextLifespan ==
    \/ LifespanEnter
    \/ lifespanPc = "creating" /\ ConstructFailed /\ CreateStepDone
    \/ lifespanPc = "creating" /\ BackoffDone /\ CreateStepDone
    \/ lifespanPc = "creating" /\ ConstructOk /\ CreateStepDone
    \/ lifespanPc = "creating" /\ ProbeQuery /\ CreateStepDone
    \/ lifespanPc = "creating" /\ ProbeReturn /\ CreateStepDone
    \/ \E kind \in ExitKinds : LifespanExit(kind)
    \/ CloseDone /\ CloseStepDone
    \/ CloseFailed /\ CloseStepDone
    \/ \E c \in Served : ClientStep(c)

SpecLifespan == InitLifespan /\ [][NextLifespan]_vars

\* ---- properties ----
TypeOK ==
    /\ pool \in {None} \cup PoolIds
    /\ _is_connected \in BOOLEAN
    /\ adminPc \in {"idle", "constructing", "sleeping", "probing", "closing"}
    /\ \A t \in Tasks : pc[t] \in {"idle", "acquired", "body", "ending", "exiting"}

Min(a, b) == IF a <= b THEN a ELSE b

\* The backoff delays create_pool may sleep, in order.
Backoffs == <<1, 2>>

\* The last lifecycle call was create_pool and it has ended.
CreatePoolEnded == adminOp = "create_pool" /\ adminPc = "idle"
CreatePoolReturned == CreatePoolEnded /\ adminResult.type = "return"

\* No asyncpg.create_pool of the current create_pool call has returned a pool.
EveryAttemptFailed == \A i \in 1..Len(storeLog) : storeLog[i][1] = "ConnectError"

\* The store refused the first k attempts of the current call and then
\* handed out a pool.
FailedThenPool(k) ==
    /\ Len(storeLog) = k + 1
    /\ \A i \in 1..k : storeLog[i][1] = "ConnectError"
    /\ storeLog[k + 1][1] = "pool"

\* C1: for a non-empty DSN, once create_pool has returned successfully,
\* is_connected is true if and only if the health probe run inside
\* create_pool succeeded; a failed probe never leaves is_connected true.
C1_ConnectedIffProbeSucceeded ==
    (DATABASE_URL # "" /\ CreatePoolReturned) => (is_connected <=> probe = "True")

\* C2: an attempt whose pool construction succeeds but whose health probe
\* fails is a failed attempt: the flag is not set by it and create_pool does
\* not return successfully from it (it backs off and tries again, or ends
\* with the final DatabaseError).
C2_FailedProbeIsFailedAttempt ==
    (adminOp = "create_pool" /\ probe = "False") =>
        /\ adminResult.type # "return"
        /\ adminPc \in {"sleeping", "constructing", "probing"}
              \/ (adminPc = "idle" /\ adminResult.type = "DatabaseError")
        /\ (~flagAtStart => ~_is_connected)

\* close_pool has completed on a manager whose pool was created, and no
\* lifecycle call was made since.
AfterClosePool ==
    /\ adminOp = "close_pool"
    /\ adminPc = "idle"
    /\ adminResult = Returned("ok")
    /\ pool # None

\* Task c calls get_connection in this step.
CallsGetConnection(c) ==
    /\ pc[c] = "idle"
    /\ op'[c] = "conn"
    /\ <<op[c], pc[c], result[c]>> # <<op'[c], pc'[c], result'[c]>>

\* C3: after close_pool has completed on a manager whose pool was created,
\* is_connected is false and every get_connection fails with the "not
\* initialized" DatabaseError of a never-initialized manager.
C3_AfterCloseNotInitialized ==
    [][AfterClosePool =>
          /\ ~is_connected
          /\ \A c \in Clients :
                CallsGetConnection(c) =>
                    result'[c] = DatabaseError(NotInitializedMsg, "none")]_vars

\* C4: a reader of is_connected never sees true while create_pool has not
\* completed its health probe, nor once close_pool has started closing the
\* pool.
C4_FlagAtomicWithPool ==
    is_connected =>
        /\ ~(adminOp = "create_pool" /\ adminPc \in {"constructing", "sleeping", "probing"})
        /\ adminPc # "closing"
        /\ poolState[pool] = "open"

\* C5: when every connection attempt of a create_pool call fails, the call
\* makes exactly 3 attempts, sleeps 1 and then 2 between them and not after
\* the last, and ends with a DatabaseError that wraps the last error of the
\* store and states the 3 attempts; a manager that was not connected when
\* the call began is not connected during the call nor after it.
C5_AlwaysFailingStore ==
    (DATABASE_URL # "" /\ adminOp = "create_pool" /\ EveryAttemptFailed) =>
        /\ storeCalls <= retry_attempts
        /\ sleeps = SubSeq(Backoffs, 1, Min(Len(storeLog), 2))
        /\ (~flagAtStart => ~is_connected)
        /\ adminPc = "idle" =>
              /\ storeCalls = 3
              /\ Len(storeLog) = 3
              /\ adminResult = CreateFailed(storeLog[3])
              /\ adminResult.attempts = 3

C5_Witness ==
    /\ DATABASE_URL # ""
    /\ CreatePoolEnded
    /\ EveryAttemptFailed
    /\ Len(storeLog) = 3
    /\ sleeps = <<1, 2>>
    /\ adminResult.type = "DatabaseError"

\* C6: when the store refuses the first k attempts (k in 0..2) of a
\* create_pool call and then succeeds, the call makes exactly k+1 attempts
\* and sleeps exactly the first k of the delays 1, 2, in that order, with
\* no attempt or sleep after the successful one; it returns successfully;
\* and a manager that was not connected when the call began becomes
\* connected only when attempt k+1 has been made and the call returns.
C6_FailsKThenSucceeds ==
    /\ \A k \in 0..Len(storeLog) :
          (adminOp = "create_pool" /\ FailedThenPool(k)) =>
              /\ k <= 2
              /\ storeCalls = k + 1
              /\ sleeps = SubSeq(Backoffs, 1, k)
              /\ adminPc \in {"probing", "idle"}
              /\ (adminPc = "idle" /\ probe = "True") =>
                    (adminResult = Returned("ok") /\ is_connected)
    /\ (adminOp = "create_pool" /\ adminPc # "idle" /\ ~flagAtStart) => ~is_connected

C6_Witness ==
    /\ CreatePoolEnded
    /\ FailedThenPool(2)
    /\ probe = "True"
    /\ sleeps = <<1, 2>>
    /\ is_connected

\* C7: with an absent or empty DSN create_pool fails at once: no connection
\* attempt, no backoff sleep, and the pool reference and the connected flag
\* are what they were (no pool, not connected).
C7_EmptyDsnFailsImmediately ==
    DATABASE_URL = "" =>
        /\ adminPc = "idle"
        /\ storeCalls = 0
        /\ sleeps = <<>>
        /\ pool = None
        /\ ~_is_connected
        /\ \A p \in PoolIds : poolState[p] = "none"
        /\ adminOp = "create_pool" => adminResult.type = "ValueError"

C7_Witness ==
    /\ DATABASE_URL = ""
    /\ CreatePoolEnded
    /\ adminResult.type = "ValueError"

\* Task t holds the connection it borrowed: it is not free in its pool.
Holds(t) == conn[t] # NoConn /\ conn[t][2] \notin free[conn[t][1]]

\* The connection indices of pool p that tasks hold.
HeldOf(p) == {conn[t][2] : t \in Borrowed(p)}

\* C8: a connection borrowed through get_connection is handed back exactly
\* once when its scope ends, on normal exit, on an exception and on
\* cancellation: at no time has a call released more than it borrowed or
\* more than once, a task inside its scope holds its connection, and a task
\* whose scope has ended holds none and has released what it borrowed.
C8_ReleasedExactlyOnce ==
    \A t \in Tasks :
        /\ releases[t] <= 1
        /\ releases[t] <= borrowed[t]
        /\ pc[t] # "idle" => (borrowed[t] = 1 /\ releases[t] = 0 /\ Holds(t))
        /\ pc[t] = "idle" => (conn[t] = NoConn /\ releases[t] = borrowed[t])

C8_Witness ==
    \E c \in Clients :
        /\ op[c] = "conn"
        /\ pc[c] = "idle"
        /\ result[c] = CancelledError
        /\ borrowed[c] = 1
        /\ releases[c] = 1
        /\ \E d \in Clients : d # c /\ result[d] = DatabaseError(FailedToAcquireMsg, "Exception")
                                    /\ releases[d] = 1

TxEnded == {"committed", "commit_failed", "rolled_back", "rollback_failed", "begin_failed"}

\* C9: a transaction scope begins a transaction on a borrowed connection;
\* COMMIT is issued if and only if the body exits without error, ROLLBACK
\* if the body raises or is cancelled; and whatever begin, commit or
\* rollback did, the connection is held until the transaction has ended and
\* is released once after that.
C9_TransactionScope ==
    \A t \in Tasks :
        op[t] = "tx" =>
            /\ pc[t] = "acquired" => (tx[t] = "none" /\ Holds(t))
            /\ pc[t] = "body" => (tx[t] = "started" /\ Holds(t))
            /\ pc[t] = "ending" =>
                  /\ Holds(t)
                  /\ tx[t] \in {"committing", "rolling_back"}
                  /\ tx[t] = "committing" <=> exc[t] = "none"
                  /\ tx[t] = "rolling_back" <=> exc[t] \in {"Exception", "CancelledError"}
            /\ pc[t] = "exiting" =>
                  /\ Holds(t)
                  /\ tx[t] \in TxEnded
                  /\ tx[t] = "committed" => exc[t] = "none"
                  /\ tx[t] \in {"rolled_back", "rollback_failed"} => exc[t] # "none"
            /\ tx[t] \in {"started", "committing", "rolling_back"} => Holds(t)
            /\ (pc[t] = "idle" /\ borrowed[t] = 1) =>
                  /\ tx[t] \in TxEnded
                  /\ releases[t] = 1
                  /\ result[t] = Returned("ok") <=> tx[t] = "committed"

C9_Witness ==
    \E c \in Clients :
        /\ op[c] = "tx"
        /\ pc[c] = "idle"
        /\ tx[c] = "rollback_failed"
        /\ releases[c] = 1
        /\ \E d \in Clients : d # c /\ op[d] = "tx" /\ pc[d] = "idle" /\ tx[d] = "committed"
                                    /\ releases[d] = 1

\* C10: with no more concurrent get_connection scopes than the pool has
\* connections (max_size), no acquisition has to wait on an open pool,
\* callers inside their scopes hold distinct connections, and every
\* connection of a pool is either free or held by one caller, whatever
\* happened in the other callers' scopes.
C10_ConcurrentScopes ==
    NClients <= max_size =>
        /\ \A c, d \in Tasks : (c # d /\ conn[c] # NoConn) => conn[c] # conn[d]
        /\ (pool # None /\ poolState[pool] = "open") => free[pool] # {}
        /\ \A p \in PoolIds :
              poolState[p] # "none" =>
                  /\ free[p] \cap HeldOf(p) = {}
                  /\ free[p] \cup HeldOf(p) = Holders
                  /\ Cardinality(free[p]) + Cardinality(Borrowed(p)) = max_size

C10_Witness ==
    \E c \in Clients :
        /\ pc[c] = "idle"
        /\ result[c] = DatabaseError(FailedToAcquireMsg, "Exception")
        /\ releases[c] = 1
        /\ \A d \in Clients : d # c => (pc[d] = "acquired" /\ conn[d] # NoConn)

\* ---- health_check as its caller sees it ----
\* Task t leaves the scope health_check opened: the connection goes back and
\* health_check returns (or the exception in flight goes on).
HealthFinishes(t) == op[t] = "health" /\ pc[t] = "exiting" /\ pc'[t] = "idle"

\* Task t called health_check and the call ended without a connection.
HealthFailsAtEntry(t) ==
    /\ pc[t] = "idle"
    /\ pc'[t] = "idle"
    /\ op'[t] = "health"
    /\ <<op[t], result[t], borrowed[t]>> # <<op'[t], result'[t], borrowed'[t]>>

\* True exactly when the round trip completed and brought the sentinel back.
HealthVerdict(t) == IF exc[t] = "none" /\ fetched[t] = "1" THEN "True" ELSE "False"

\* The connection task t held is back in its pool, released once.
HealthReleased(t) ==
    /\ conn[t] # NoConn
    /\ conn'[t] = NoConn
    /\ conn[t][2] \in free'[conn[t][1]]
    /\ borrowed'[t] = 1
    /\ releases'[t] = 1

\* C11 as stated: in every manager state (pool never set, open, closed)
\* health_check never raises to its caller: it returns True only when a
\* connection was borrowed and the round trip returned 1, returns False on
\* an acquisition failure, a query failure or another value, and has
\* released the connection it borrowed.
C11_HealthCheckNeverRaises ==
    [][\A t \in Tasks :
          /\ HealthFinishes(t) =>
                /\ result'[t] = Returned(HealthVerdict(t))
                /\ HealthReleased(t)
          /\ HealthFailsAtEntry(t) =>
                /\ result'[t] = Returned("False")
                /\ borrowed'[t] = 0
                /\ conn'[t] = NoConn
                /\ \A p \in PoolIds : poolState[p] # "none" => free'[p] = free[p]]_vars

\* C11 amended: health_check never raises an Exception; the one thing that
\* leaves it is the cancellation of the calling task (CancelledError is not
\* an Exception, so `except Exception` lets it pass), and then too the
\* borrowed connection has been released.
C11_HealthCheckRaisesOnlyCancellation ==
    [][\A t \in Tasks :
          /\ HealthFinishes(t) =>
                /\ result'[t] = IF exc[t] = "CancelledError" THEN CancelledError
                                ELSE Returned(HealthVerdict(t))
                /\ HealthReleased(t)
          /\ HealthFailsAtEntry(t) =>
                /\ result'[t] = Returned("False")
                /\ borrowed'[t] = 0
                /\ conn'[t] = NoConn
                /\ \A p \in PoolIds : poolState[p] # "none" => free'[p] = free[p]]_vars

\* A health_check on a closed pool returned False without a connection,
\* after an earlier one of the same manager had borrowed and released.
C11_Witness ==
    /\ pool # None
    /\ poolState[pool] = "closed"
    /\ op[Caller] = "health"
    /\ pc[Caller] = "idle"
    /\ result[Caller] = Returned("False")
    /\ borrowed[Caller] = 0
    /\ op[AdminTask] = "health"
    /\ releases[AdminTask] = 1

\* ---- execute_query as its caller sees it ----
\* The statement of task t's execute_query completes (returns or raises).
StatementCompletes(t) ==
    /\ op[t] = "query"
    /\ pc[t] = "acquired"
    /\ <<fetched[t], exc[t]>> # <<fetched'[t], exc'[t]>>

QueryFinishes(t) == op[t] = "query" /\ pc[t] = "exiting" /\ pc'[t] = "idle"

\* C12: one execute_query call borrows at most one connection and executes
\* at most one statement (a completed statement, failed or not, ends the
\* call: nothing is retried); when the statement fails the call fails with
\* a DatabaseError, carries no rows, and the borrowed connection is back in
\* the pool when the error reaches the caller.
C12_ExecuteQueryOnce ==
    [][\A t \in Tasks :
          /\ op'[t] = "query" => borrowed'[t] <= 1 /\ releases'[t] <= borrowed'[t]
          /\ (op[t] = "query" /\ pc[t] # "idle") =>
                /\ op'[t] = "query"
                /\ conn'[t] \in {conn[t], NoConn}
                /\ borrowed'[t] = borrowed[t]
          /\ StatementCompletes(t) => pc'[t] = "exiting"
          /\ (op[t] = "query" /\ pc[t] = "exiting") =>
                /\ pc'[t] \in {"exiting", "idle"}
                /\ pc'[t] = "exiting" => <<fetched'[t], exc'[t]>> = <<fetched[t], exc[t]>>
          /\ (QueryFinishes(t) /\ exc[t] = "Exception") =>
                /\ result'[t].type = "DatabaseError"
                /\ result'[t].msg = QueryFailedMsg
                /\ conn[t] # NoConn
                /\ conn'[t] = NoConn
                /\ conn[t][2] \in free'[conn[t][1]]
                /\ releases'[t] = 1
          /\ (QueryFinishes(t) /\ exc[t] = "none") => result'[t] = Returned(fetched[t])
          /\ (QueryFinishes(t) /\ result'[t].type = "return") => exc[t] = "none"]_vars

\* The statement of an execute_query failed: the caller has the
\* DatabaseError and the one connection borrowed has been released.
C12_Witness ==
    /\ op[Caller] = "query"
    /\ pc[Caller] = "idle"
    /\ result[Caller] = DatabaseError(QueryFailedMsg, FailedToAcquireMsg)
    /\ borrowed[Caller] = 1
    /\ releases[Caller] = 1
    /\ conn[Caller] = NoConn

\* The store has constructed no pool for this manager: no create_pool call
\* got past asyncpg.create_pool (none was made, or each stopped at the DSN
\* test or ran out of attempts), so none has completed successfully.
NoPoolEver == \A p \in PoolIds : poolState[p] = "none"

\* C13: on a manager on which create_pool has never completed successfully
\* (never called, stopped on the empty DSN, or failed after its 3 attempts)
\* is_connected is false and every get_connection fails with the "pool not
\* initialized" DatabaseError without borrowing a connection.
C13_NeverInitialized ==
    [][NoPoolEver =>
          /\ ~is_connected
          /\ \A c \in Clients :
                CallsGetConnection(c) =>
                    /\ result'[c] = DatabaseError(NotInitializedMsg, "none")
                    /\ borrowed'[c] = 0
                    /\ conn'[c] = NoConn
                    /\ free' = free]_vars

\* create_pool gave up after its 3 attempts and a later get_connection
\* failed with the "not initialized" error.
C13_Witness ==
    /\ NoPoolEver
    /\ CreatePoolEnded
    /\ EveryAttemptFailed
    /\ Len(storeLog) = retry_attempts
    /\ adminResult.type = "DatabaseError"
    /\ op[Caller] = "conn"
    /\ pc[Caller] = "idle"
    /\ result[Caller] = DatabaseError(NotInitializedMsg, "none")
    /\ borrowed[Caller] = 0

\* ---- the error boundary of the scoped operations ----
\* The operations whose errors reach the caller: get_connection,
\* transaction, execute_query.
RaisingOps == {"conn", "tx", "query"}

\* Task t leaves the scope of one of these operations.
ScopeFinishes(t) == op[t] \in RaisingOps /\ pc[t] = "exiting" /\ pc'[t] = "idle"

\* Task t called one of these operations and the call ended at once.
FailsAtEntry(t) ==
    /\ pc[t] = "idle"
    /\ pc'[t] = "idle"
    /\ op'[t] \in RaisingOps
    /\ <<op[t], result[t], borrowed[t]>> # <<op'[t], result'[t], borrowed'[t]>>

\* C14: every error get_connection, transaction or execute_query hands to
\* its caller is a DatabaseError: a failure to borrow the connection, a
\* failed BEGIN / COMMIT / ROLLBACK and a failed statement inside the scope
\* never cross the boundary as the driver raised them. (What else leaves a
\* scope is the cancellation of the caller's task, which is no error of
\* the store.)
C14_OnlyDatabaseError ==
    [][\A t \in Tasks :
          /\ FailsAtEntry(t) => result'[t].type = "DatabaseError"
          /\ (ScopeFinishes(t) /\ exc[t] = "Exception") =>
                result'[t].type = "DatabaseError"
          /\ (ScopeFinishes(t) /\ tx[t] \in {"begin_failed", "commit_failed",
                                              "rollback_failed"}) =>
                result'[t].type = "DatabaseError"
          /\ (ScopeFinishes(t) /\ result'[t].type \notin {"return", "DatabaseError"}) =>
                /\ exc[t] = "CancelledError"
                /\ result'[t] = CancelledError]_vars

\* A COMMIT failed and the caller of transaction got a DatabaseError.
C14_Witness ==
    /\ op[Caller] = "tx"
    /\ pc[Caller] = "idle"
    /\ tx[Caller] = "commit_failed"
    /\ result[Caller].type = "DatabaseError"
    /\ releases[Caller] = 1

\* ---- close_pool called again ----
\* The lifecycle task calls close_pool in this step.
CallsClosePool ==
    /\ adminPc = "idle"
    /\ adminOp' = "close_pool"
    /\ <<adminVars, mgrVars, poolState>> # <<adminVars, mgrVars, poolState>>'

\* The manager as close_pool can change it, and how the call ended.
ClosedQuietly ==
    /\ pool' = pool
    /\ _is_connected' = _is_connected
    /\ poolState' = poolState
    /\ free' = free
    /\ adminPc' = "idle"
    /\ adminResult' = Returned("ok")

\* C17: close_pool on a manager without a pool is a no-op (pool reference
\* and connected flag unchanged, no error), and a close_pool that follows a
\* completed close_pool returns without raising and leaves the manager as
\* the first one left it.
C17_ClosePoolIdempotent ==
    [][CallsClosePool =>
          /\ pool = None => ClosedQuietly /\ pool' = None
          /\ AfterClosePool => ClosedQuietly /\ ~_is_connected']_vars

\* close_pool returned for the second time on the pool a first-try
\* create_pool had set: the call started on a closed pool with the flag
\* already cleared.
C17_Witness ==
    /\ AfterClosePool
    /\ poolState[pool] = "closed"
    /\ ~_is_connected
    /\ flagAtStart = FALSE
    /\ FailedThenPool(0)

\* ---- pools the manager has constructed ----
\* The pools constructed and not closed.
OpenPools == {p \in PoolIds : poolState[p] \in {"open", "closing"}}

\* C19: whatever create_pool and close_pool calls were made, at most one
\* constructed pool is un-closed at a time, and once a close_pool has
\* returned no constructed pool is left open: a second successful
\* create_pool does not leave the earlier pool open and unreferenced.
C19_AtMostOneOpenPool ==
    /\ Cardinality(OpenPools) <= 1
    /\ OpenPools \subseteq {pool}
    /\ (adminOp = "close_pool" /\ adminPc = "idle" /\ adminResult.type = "return") =>
          OpenPools = {}

\* ---- who writes the pool reference and the connected flag ----
\* A client task moves in this step: it calls, continues or leaves
\* health_check, get_connection, transaction or execute_query.
ClientMoves(c) ==
    <<op[c], pc[c], conn[c], exc[c], fetched[c], result[c], tx[c], borrowed[c],
      releases[c]>> #
    <<op'[c], pc'[c], conn'[c], exc'[c], fetched'[c], result'[c], tx'[c],
      borrowed'[c], releases'[c]>>

\* The lifecycle task moves in this step: a step of create_pool or close_pool.
LifecycleMoves == adminVars' # adminVars

\* C20: the pool reference and the connected flag are written by create_pool
\* and close_pool only: no step of health_check, is_connected,
\* get_connection, transaction or execute_query changes either, whether the
\* operation succeeds or fails.
C20_OnlyLifecycleWrites ==
    [][/\ (\E c \in Clients : ClientMoves(c)) =>
             pool' = pool /\ _is_connected' = _is_connected
       /\ (pool' # pool \/ _is_connected' # _is_connected) => LifecycleMoves]_vars

\* While the manager is connected, a client's health_check borrowed a
\* connection and returned False, and the flag is still set on the same
\* open pool.
C20_Witness ==
    /\ is_connected
    /\ poolState[pool] = "open"
    /\ adminPc = "idle"
    /\ pc[Caller] = "idle"
    /\ op[Caller] = "health"
    /\ result[Caller] = Returned("False")
    /\ borrowed[Caller] = 1

\* ---- the vector literal ----
\* The fields of text s between the separators c, in order (s.split(c)).
RECURSIVE SplitAt(_, _)
SplitAt(s, c) ==
    IF \E i \in 1..Len(s) : s[i] = c
    THEN LET i == CHOOSE k \in 1..Len(s) : s[k] = c /\ \A j \in 1..(k - 1) : s[j] # c
         IN <<SubSeq(s, 1, i - 1)>> \o SplitAt(SubSeq(s, i + 1, Len(s)), c)
    ELSE <<s>>

\* Text s is the literal of list e: brackets around the default text forms
\* of e's values in e's order, one comma between neighbours, no blank.
IsLiteralOf(s, e) ==
    /\ Len(s) >= 2
    /\ s[1] = "["
    /\ s[Len(s)] = "]"
    /\ \A i \in 1..Len(s) : s[i] # " "
    /\ Cardinality({i \in 1..Len(s) : s[i] = ","}) = IF e = <<>> THEN 0 ELSE Len(e) - 1
    /\ LET inner == SubSeq(s, 2, Len(s) - 1)
       IN IF e = <<>> THEN inner = <<>>
          ELSE SplitAt(inner, ",") = [i \in 1..Len(e) |-> str(e[i])]

\* C18: embedding_to_postgres_vector writes n values as "[" + their
\* default text forms joined by single commas, without blanks + "]", in
\* the order of the list: [] gives "[]", [1.0, 2.5] gives "[1.0,2.5]"; and
\* the copy in doc_parser.py returns the same text as the one in utils.py.
C18_VectorLiteral ==
    /\ vectorUtils # NoText =>
          /\ IsLiteralOf(vectorUtils, embedding)
          /\ embedding = <<>> => vectorUtils = <<"[", "]">>
          /\ embedding = <<10, 25>> =>
                vectorUtils = <<"[", "1", ".", "0", ",", "2", ".", "5", "]">>
    /\ vectorParser # NoText => IsLiteralOf(vectorParser, embedding)
    /\ (vectorUtils # NoText /\ vectorParser # NoText) => vectorUtils = vectorParser

\* Both copies have written [1.0, -0.5, 2.5].
C18_Witness ==
    /\ embedding = <<10, 0 - 5, 25>>
    /\ vectorUtils = <<"[", "1", ".", "0", ",", "-", "0", ".", "5", ",", "2", ".", "5", "]">>
    /\ vectorParser = vectorUtils

\* ---- the similarity search ----
\* The rows of the table that call_defra_docs returned.
Returned_Rows == {i \in 1..Len(documents) : \E k \in 1..Len(found.msg) :
                                               found.msg[k].content = documents[i].content}

C16_LifespanOrder ==
    [][/\ yields' # yields =>
             /\ yields' = 1
             /\ adminOp' = "create_pool"
             /\ adminPc' = "idle"
             /\ adminResult'.type = "return"
             /\ closeCalls' = 0
       /\ (adminOp' = "create_pool" /\ adminPc' = "idle" /\ adminResult'.type # "return") =>
             lifespanPc' = "failed"
       /\ lifespanPc' = "failed" => yields' = 0 /\ closeCalls' = 0
       /\ lifespanPc = "failed" => lifespanPc' = "failed"
       /\ (lifespanPc = "ready" /\ lifespanPc' # "ready") =>
             /\ lifespanExit' \in ExitKinds
             /\ adminOp' = "close_pool"
             /\ closeCalls' = 1
       /\ closeCalls' # closeCalls => lifespanPc = "ready"
       /\ closeCalls' <= yields'
       /\ lifespanPc' = "done" => yields' = 1 /\ closeCalls' = 1]_vars

\* The lifespan was cancelled while it was ready, after create_pool had
\* needed a second attempt: close_pool was called once and has returned.
C16_Witness ==
    /\ lifespanPc = "done"
    /\ lifespanExit = "CancelledError"
    /\ yields = 1
    /\ closeCalls = 1
    /\ FailedThenPool(1)
    /\ adminOp = "close_pool"
    /\ adminResult = Returned("ok")

====
